---- MODULE Spec2Model ----
(***************************************************************************)
(* A model of the parserlib/Pegmatite PEG engine of src/source/parser.cpp: *)
(* the expression algebra, the parsing context, the left-recursion         *)
(* protocol of _context::parse_non_term / parse_term and the parse driver. *)
(*                                                                         *)
(* The recursive-descent evaluator is modelled as an abstract machine: the *)
(* C++ call stack is the variable `stack` (one frame per activation that   *)
(* still has work to do after a callee returns), `ctl` is what the machine *)
(* does next (evaluate an expression, enter a rule, return a boolean, or   *)
(* unwind with the _lr_ok exception).                                      *)
(***************************************************************************)
EXTENDS Integers, Sequences, FiniteSets, TLC

\* ------------------------------------------------------------------ bounds
\* Longest input of the exhaustive part of Init (the scenario inputs are longer).
MaxLen == 3
\* Cap of the match log: a grow loop that never stops appends for ever.
MaxMatches == 12

\* --------------------------------------------------- expression algebra
char(c)      == [t |-> "char", c |-> c]
string(s)    == [t |-> "string", s |-> s]
set(S)       == [t |-> "set", S |-> S]
term(e)      == [t |-> "term", e |-> e]
loop0(e)     == [t |-> "loop0", e |-> e]
loop1(e)     == [t |-> "loop1", e |-> e]
optional(e)  == [t |-> "optional", e |-> e]
and(e)       == [t |-> "and", e |-> e]
not(e)       == [t |-> "not", e |-> e]
nl(e)        == [t |-> "nl", e |-> e]
seq(l, r)    == [t |-> "seq", l |-> l, r |-> r]
choice(l, r) == [t |-> "choice", l |-> l, r |-> r]
ref(r)       == [t |-> "ref", r |-> r]
eof          == [t |-> "eof"]
any          == [t |-> "any"]

\* ------------------------------------------------------------- grammars
\* Characters are one-character strings; LF stands for '\n', TAB for '\t'.
Digits  == {"0", "1", "2", "3", "4", "5", "6", "7", "8", "9"}
Letters == {"a", "b", "f", "o", "r", "z"}

\* src/tests/calculator.cc, IntCalculatorGrammar.  "[0-9]+"_R is a terminal
\* matching one or more digits; " \t\n"_E is the string of these three.
CalculatorGrammar ==
  [ rules |->
      [ ws     |-> string(<<" ", "TAB", "LF">>),
        digits |-> term(loop1(set(Digits))),
        num    |-> seq(ref("digits"),
                       optional(seq(seq(set({"e", "E"}), optional(set({"+", "-"}))),
                                    ref("digits")))),
        val    |-> choice(ref("num"), seq(seq(char("("), ref("expr")), char(")"))),
        mul_op |-> seq(seq(ref("mul"), char("*")), ref("mul")),
        div_op |-> seq(seq(ref("mul"), char("/")), ref("mul")),
        mod_op |-> seq(seq(ref("mul"), char("%")), ref("mul")),
        mul    |-> choice(choice(choice(ref("mul_op"), ref("div_op")), ref("mod_op")),
                          ref("val")),
        add_op |-> seq(seq(ref("expr"), char("+")), ref("expr")),
        sub_op |-> seq(seq(ref("expr"), char("-")), ref("expr")),
        expr   |-> choice(choice(ref("add_op"), ref("sub_op")), ref("mul")) ],
    bound |-> {"num", "add_op", "sub_op", "mul_op", "div_op", "mod_op"},
    ws    |-> "ws",
    root  |-> "expr",
    alphabet |-> {"1", "+", "*"},
    scenarios |-> { <<"1", "6", "+", "2", "6">> } ]

\* spec.md section 8: expr = expr '+' expr | expr '-' expr | num; num = [0-9]+,
\* the operator alternatives being rules of their own (as add_op and sub_op of
\* calculator.cc) so that actions can be bound to them.
ArithGrammar ==
  [ rules |->
      [ ws     |-> loop0(set({" "})),
        num    |-> term(loop1(set(Digits))),
        add_op |-> seq(seq(ref("expr"), char("+")), ref("expr")),
        sub_op |-> seq(seq(ref("expr"), char("-")), ref("expr")),
        expr   |-> choice(choice(ref("add_op"), ref("sub_op")), ref("num")) ],
    bound |-> {"num", "add_op", "sub_op"},
    ws    |-> "ws",
    root  |-> "expr",
    alphabet |-> {"1", "+", "-"},
    scenarios |-> { <<"1", "+", "2", "-", "3">>, <<"1", "6", "+", "2", "6">>,
                    <<"1", "+">> } ]

\* The same language with the left recursion written directly in one bound rule.
DirectGrammar ==
  [ rules |->
      [ ws   |-> loop0(set({" "})),
        num  |-> term(loop1(set(Digits))),
        expr |-> choice(choice(seq(seq(ref("expr"), char("+")), ref("num")),
                               seq(seq(ref("expr"), char("-")), ref("num"))),
                        ref("num")) ],
    bound |-> {"num", "expr"},
    ws    |-> "ws",
    root  |-> "expr",
    alphabet |-> {"1", "+", " "},
    scenarios |-> { <<"1", "+", "2", "-", "3">> } ]

\* src/unnamed/part_001 (the language-grammar test), lines 58-66 and 131-138.
LanguageGrammar ==
  [ rules |->
      [ Space          |-> string(<<" ", "TAB", "LF">>),
        Alpha          |-> term(loop1(set(Letters))),
        Identifier     |-> term(loop1(ref("Alpha"))),
        NameReference  |-> ref("Identifier"),
        FieldReference |-> seq(seq(ref("Term"), string(<<".">>)), ref("Identifier")),
        Term           |-> choice(ref("FieldReference"), ref("NameReference")) ],
    bound |-> {"Identifier", "NameReference", "FieldReference"},
    ws    |-> "Space",
    root  |-> "Term",
    alphabet |-> {"a", ".", " "},
    scenarios |-> { <<"f", "o", "o", ".", "b", "a", "r">>,
                    <<"f", "o", "o", ".", "b", "a", "r", ".", "b", "a", "z">> } ]

\* spec.md section 8, property 7: A = B '+' A | B; B = A '*' B | id.
MutualGrammar ==
  [ rules |->
      [ ws |-> loop0(set({" "})),
        id |-> term(loop1(set(Letters))),
        A  |-> choice(seq(seq(ref("B"), char("+")), ref("A")), ref("B")),
        B  |-> choice(seq(seq(ref("A"), char("*")), ref("B")), ref("id")) ],
    bound |-> {"A", "B", "id"},
    ws    |-> "ws",
    root  |-> "A",
    alphabet |-> {"a", "+", "*"},
    scenarios |-> { <<"a", "*", "a", "+", "a">>, <<"a", "+", "a", "*", "a">> } ]

\* spec.md section 8: a = a (unproductive), and a = a | 'x', whose
\* left-recursive alternative succeeds on its own.
UnproductiveGrammar ==
  [ rules |-> [ ws |-> loop0(set({" "})), a |-> ref("a") ],
    bound |-> {"a"},
    ws    |-> "ws",
    root  |-> "a",
    alphabet |-> {"x"},
    scenarios |-> { <<"x">> } ]

SelfGrammar ==
  [ rules |-> [ ws |-> loop0(set({" "})), a |-> choice(ref("a"), char("x")) ],
    bound |-> {"a"},
    ws    |-> "ws",
    root  |-> "a",
    alphabet |-> {"x"},
    scenarios |-> { <<"x">> } ]

\* spec.md section 8: expr = '(' expr ')' | num; num = [0-9]+, ws = ' '.
ParenGrammar ==
  [ rules |->
      [ ws   |-> char(" "),
        num  |-> loop1(set(Digits)),
        expr |-> choice(seq(seq(char("("), ref("expr")), char(")")), ref("num")) ],
    bound |-> {"num", "expr"},
    ws    |-> "ws",
    root  |-> "expr",
    alphabet |-> {"7", "(", " "},
    scenarios |-> { <<" ", "(", " ", "7", " ", ")", " ">> } ]

\* spec.md section 8: id = term(+[A-Za-z]) used in id '.' id.
IdGrammar ==
  [ rules |->
      [ ws   |-> loop0(set({" "})),
        id   |-> term(loop1(set(Letters))),
        root |-> seq(seq(ref("id"), char(".")), ref("id")) ],
    bound |-> {"id"},
    ws    |-> "ws",
    root  |-> "root",
    alphabet |-> {"a", ".", " "},
    scenarios |-> { <<"f", "o", "o", " ", ".", " ", "b", "a", "r">> } ]

\* A grammar over the remaining operators: predicates, any, eof, newline,
\* optional and zero-or-more, with sub-expressions that fail after consuming
\* and a bound rule (gap) that succeeds on the empty string.
MiscGrammar ==
  [ rules |->
      [ ws    |-> loop0(set({" "})),
        root  |-> seq(loop0(ref("item")), eof),
        item  |-> choice(choice(ref("pair"), ref("line")), ref("other")),
        pair  |-> seq(and(seq(ref("one"), char("b"))), string(<<"a", "b">>)),
        one   |-> char("a"),
        line  |-> nl(char("LF")),
        gap   |-> optional(char("b")),
        other |-> seq(not(string(<<"a", "b">>)),
                      seq(optional(seq(ref("one"), ref("gap"))), any)) ],
    bound |-> {"pair", "line", "other", "one", "gap"},
    ws    |-> "ws",
    root  |-> "root",
    alphabet |-> {"a", "b", "LF"},
    scenarios |-> { <<"a", "b", " ", "a", "a">> } ]

\* A terminal that must reach the end of the input, with a sequence, a
\* repetition and a rule reference inside it: root = term(*pad 'a' eof),
\* pad = 'b' 'b'.
EndGrammar ==
  [ rules |->
      [ ws   |-> loop0(set({" "})),
        pad  |-> seq(char("b"), char("b")),
        root |-> term(seq(seq(loop0(ref("pad")), char("a")), eof)) ],
    bound |-> {"root", "pad"},
    ws    |-> "ws",
    root  |-> "root",
    alphabet |-> {"a", "b", " "},
    scenarios |-> { <<"b", "b", "a", "b">> } ]

\* A rule that looks ahead at itself: p = &p 'a' | 'a'.
PredGrammar ==
  [ rules |->
      [ ws |-> loop0(set({" "})),
        p  |-> choice(seq(and(ref("p")), char("a")), char("a")) ],
    bound |-> {"p"},
    ws    |-> "ws",
    root  |-> "p",
    alphabet |-> {"a", "b"},
    scenarios |-> { <<"a", "a">> } ]

\* A left-recursive rule whose iterations can fail after they consumed input:
\* a = (a x | 'z') !'y', x = 'x'.
GrowGrammar ==
  [ rules |->
      [ ws |-> loop0(set({" "})),
        a  |-> seq(choice(seq(ref("a"), ref("x")), char("z")), not(char("y"))),
        x  |-> char("x") ],
    bound |-> {"a", "x"},
    ws    |-> "ws",
    root  |-> "a",
    alphabet |-> {"x", "y", "z"},
    scenarios |-> { <<"z", "x", "x", "y">> } ]

\* Repetitions of operands that can succeed without consuming, in both modes:
\* root = 'b' term(+(&'b')) | *('a'?).
StarGrammar ==
  [ rules |->
      [ ws   |-> loop0(set({" "})),
        root |-> choice(seq(char("b"), term(loop1(and(char("b"))))),
                        loop0(optional(char("a")))) ],
    bound |-> {"root"},
    ws    |-> "ws",
    root  |-> "root",
    alphabet |-> {"a", "b"},
    scenarios |-> {} ]

GrammarNames ==
  {"calculator", "arith", "direct", "language", "mutual", "unproductive", "self",
   "paren", "id", "misc", "end", "pred", "grow", "star"}

Grammar(g) ==
  CASE g = "calculator"   -> CalculatorGrammar
    [] g = "arith"        -> ArithGrammar
    [] g = "direct"       -> DirectGrammar
    [] g = "language"     -> LanguageGrammar
    [] g = "mutual"       -> MutualGrammar
    [] g = "unproductive" -> UnproductiveGrammar
    [] g = "self"         -> SelfGrammar
    [] g = "paren"        -> ParenGrammar
    [] g = "id"           -> IdGrammar
    [] g = "misc"         -> MiscGrammar
    [] g = "end"          -> EndGrammar
    [] g = "pred"         -> PredGrammar
    [] g = "grow"         -> GrowGrammar
    [] g = "star"         -> StarGrammar

\* All character sequences over A of length at most n.
Words(A, n) == UNION { [1..k -> A] : k \in 0..n }

Inputs(g) == Grammar(g).scenarios \cup Words(Grammar(g).alphabet, MaxLen)

\* ---------------------------------------------------------------- state
VARIABLES
  gram,       \* the grammar under parse (its name)
  input,      \* the input, a sequence of characters
  pos,        \* _context::m_pos: [it, line, col], it an offset from m_begin
  error_pos,  \* _context::m_error_pos
  matches,    \* _context::m_matches
  rstate,     \* rule::m_state of every rule: [mode, pos]
  stack,      \* the activations in flight, innermost last
  ctl,        \* what the evaluator does next
  pc,         \* where parse() is: "start", "run", "done"
  result,     \* what parse() returned: "none", "true", "false"; "crash" if it never did
  el,         \* the error list parse() appends to
  calls,      \* the parse procs invoked so far: [rule, begin, end, d]
  prev,       \* what the previous parse() on the same rules gave, if there was one
  objects,    \* the rule object at each address: NoRule or [m_parse_proc, bound]
  parse_proc_map,  \* *_parse_proc_map: the parse proc filed under each address
  made        \* the addresses of the rules that match records were pushed for

vars == <<gram, input, pos, error_pos, matches, rstate, stack, ctl, pc, result, el, calls,
          prev, objects, parse_proc_map, made>>

\* The user data handed to parse() and on to every parse proc.
UserData == "d"

\* rule::_state's initial value: mode _PARSE, position -1 (no position).
NoPos == -1
InitialRuleState == [mode |-> "PARSE", pos |-> NoPos]

\* pos::pos(input &)
BeginPos == [it |-> 0, line |-> 1, col |-> 1]

G == Grammar(gram)
Rules == DOMAIN G.rules
Body(r) == G.rules[r]
\* _private::get_parse_proc(r) != 0
HasParseProc(r) == r \in G.bound

\* The addresses rule objects are constructed at, and the parse procs to bind.
Addresses == {"x", "y"}
Procs == {"f", "g"}
\* A null parse_proc; no entry in the map.
NoProc == "0"
\* No rule object lives at the address.
NoRule == [alive |-> FALSE]
\* How many match records the rule objects are followed for.
MaxMade == 2

Init ==
  /\ objects = [a \in Addresses |-> NoRule]
  /\ parse_proc_map = [a \in Addresses |-> NoProc]
  /\ made = <<>>
  /\ gram \in GrammarNames
  /\ input \in Inputs(gram)
  /\ pos = BeginPos
  /\ error_pos = BeginPos
  /\ matches = <<>>
  /\ rstate = [r \in DOMAIN Grammar(gram).rules |-> InitialRuleState]
  /\ stack = <<>>
  /\ ctl = [op |-> "idle"]
  /\ pc = "start"
  /\ result = "none"
  /\ el = <<>>
  /\ calls = <<>>
  /\ prev = <<>>

\* ------------------------------------------------------ context helpers
\* _context::end
end(p) == p.it = Len(input)
\* _context::symbol
symbol(p) == input[p.it + 1]
\* _context::next_col
next_col(p) == [p EXCEPT !.it = @ + 1, !.col = @ + 1]
\* _context::next_line
next_line(p) == [p EXCEPT !.line = @ + 1, !.col = 1]
\* set_error_pos without its comparison: the last failure, not the furthest.
set_error_pos_last(p, ep) == p
\* _context::set_error_pos: the new value of m_error_pos with the context at p
set_error_pos(p, ep) == IF p.it > ep.it THEN p ELSE ep
\* A snapshot that counts one record more than the log holds.
Snapshot_one_more == [pos |-> pos, matches |-> Len(matches) + 1]
\* _state::_state(_context &)
Snapshot == [pos |-> pos, matches |-> Len(matches)]
\* _match::_match(): a default-constructed record, its rule not initialised
DefaultMatch == [rule |-> "uninitialised", begin |-> BeginPos, end |-> BeginPos]
\* std::vector::resize
resize(v, n) ==
  IF n <= Len(v) THEN SubSeq(v, 1, n)
  ELSE v \o [i \in 1..(n - Len(v)) |-> DefaultMatch]
\* _context::restore
restore(st) ==
  /\ pos' = st.pos
  /\ matches' = resize(matches, st.matches)

Top == stack[Len(stack)]
Pop == SubSeq(stack, 1, Len(stack) - 1)
Push(f) == Append(stack, f)
Replace(f) == Append(Pop, f)

Evaluating(tag) == pc = "run" /\ ctl.op = "eval" /\ ctl.e.t = tag
Returning(kind) == pc = "run" /\ ctl.op = "ret" /\ stack # <<>> /\ Top.k = kind

Ret(ok) == [op |-> "ret", ok |-> ok]
Eval(e, t) == [op |-> "eval", e |-> e, term |-> t]
Call(r, t) == [op |-> "call", r |-> r, term |-> t]
Throw(r) == [op |-> "throw", r |-> r]

\* The activation of an expression's parse_term / parse_non_term: the expression,
\* the mode, and the context's position and match count when it was entered.
ExprFrame == [k |-> "expr", e |-> ctl.e, term |-> ctl.term,
              pos |-> pos, matches |-> Len(matches)]


\* What every step below leaves alone besides the evaluator's own state.
DriverUnchanged ==
  UNCHANGED <<gram, input, pc, result, el, calls, prev, objects, parse_proc_map, made>>

\* --------------------------------------------- character-level matchers
\* _char::_parse
char_parse ==
  /\ Evaluating("char")
  /\ IF ~end(pos) /\ symbol(pos) = ctl.e.c
       THEN /\ pos' = next_col(pos)
            /\ error_pos' = error_pos
            /\ ctl' = Ret(TRUE)
       ELSE /\ pos' = pos
            /\ error_pos' = set_error_pos(pos, error_pos)
            /\ ctl' = Ret(FALSE)
  /\ stack' = Push(ExprFrame)
  /\ UNCHANGED <<matches, rstate>>
  /\ DriverUnchanged

\* The loop of _string::_parse from character i of s with the context at p:
\* where it stops, and whether it stopped at the end of s.
RECURSIVE string_scan(_, _, _)
string_scan(s, i, p) ==
  IF i > Len(s) THEN [ok |-> TRUE, pos |-> p]
  ELSE IF end(p) \/ symbol(p) # s[i] THEN [ok |-> FALSE, pos |-> p]
  ELSE string_scan(s, i + 1, next_col(p))

\* _string::_parse
string_parse ==
  /\ Evaluating("string")
  /\ LET sc == string_scan(ctl.e.s, 1, pos)
     IN  /\ pos' = sc.pos
         /\ error_pos' = IF sc.ok THEN error_pos ELSE set_error_pos(sc.pos, error_pos)
         /\ ctl' = Ret(sc.ok)
  /\ stack' = Push(ExprFrame)
  /\ UNCHANGED <<matches, rstate>>
  /\ DriverUnchanged

\* _set::_parse
set_parse ==
  /\ Evaluating("set")
  /\ IF ~end(pos) /\ symbol(pos) \in ctl.e.S
       THEN /\ pos' = next_col(pos)
            /\ error_pos' = error_pos
            /\ ctl' = Ret(TRUE)
       ELSE /\ pos' = pos
            /\ error_pos' = set_error_pos(pos, error_pos)
            /\ ctl' = Ret(FALSE)
  /\ stack' = Push(ExprFrame)
  /\ UNCHANGED <<matches, rstate>>
  /\ DriverUnchanged

\* _any::parse_term
any_parse ==
  /\ Evaluating("any")
  /\ IF ~end(pos)
       THEN /\ pos' = next_col(pos)
            /\ error_pos' = error_pos
            /\ ctl' = Ret(TRUE)
       ELSE /\ pos' = pos
            /\ error_pos' = set_error_pos(pos, error_pos)
            /\ ctl' = Ret(FALSE)
  /\ stack' = Push(ExprFrame)
  /\ UNCHANGED <<matches, rstate>>
  /\ DriverUnchanged

\* _eof::parse_term
eof_parse ==
  /\ Evaluating("eof")
  /\ ctl' = Ret(end(pos))
  /\ stack' = Push(ExprFrame)
  /\ UNCHANGED <<pos, error_pos, matches, rstate>>
  /\ DriverUnchanged

\* The return of an expression's parse_term / parse_non_term to its caller.
expr_return ==
  /\ Returning("expr")
  /\ stack' = Pop
  /\ UNCHANGED <<pos, error_pos, matches, rstate, ctl>>
  /\ DriverUnchanged

\* ---------------------------------------------------- unary operators
\* A Terminal that hands its own mode on to its operand.
term_parse_same_mode ==
  /\ Evaluating("term")
  /\ stack' = Push(ExprFrame)
  /\ ctl' = Eval(ctl.e.e, ctl.term)
  /\ UNCHANGED <<pos, error_pos, matches, rstate>>
  /\ DriverUnchanged

\* _term::parse_non_term, _term::parse_term
term_parse ==
  /\ Evaluating("term")
  /\ stack' = Push(ExprFrame)
  /\ ctl' = Eval(ctl.e.e, TRUE)
  /\ UNCHANGED <<pos, error_pos, matches, rstate>>
  /\ DriverUnchanged

\* _loop0: entry. Non-term mode skips whitespace first, term mode snapshots
\* and tries the operand.
loop0_parse ==
  /\ Evaluating("loop0")
  /\ IF ctl.term
       THEN /\ stack' = Append(Push(ExprFrame),
                               [k |-> "loop0", e |-> ctl.e.e, term |-> TRUE, st |-> Snapshot])
            /\ ctl' = Eval(ctl.e.e, TRUE)
       ELSE /\ stack' = Append(Push(ExprFrame), [k |-> "loop0_ws", e |-> ctl.e.e])
            /\ ctl' = Call(G.ws, TRUE)
  /\ UNCHANGED <<pos, error_pos, matches, rstate>>
  /\ DriverUnchanged

\* _loop0::parse_non_term after con.parse_ws(): snapshot, try the operand.
loop0_ws_return ==
  /\ Returning("loop0_ws")
  /\ stack' = Replace([k |-> "loop0", e |-> Top.e, term |-> FALSE, st |-> Snapshot])
  /\ ctl' = Eval(Top.e, FALSE)
  /\ UNCHANGED <<pos, error_pos, matches, rstate>>
  /\ DriverUnchanged

\* _loop0 after an attempt of the operand: go round again, or restore and stop.
loop0_return ==
  /\ Returning("loop0")
  /\ IF ctl.ok
       THEN /\ IF Top.term
                 THEN /\ stack' = Replace([Top EXCEPT !.st = Snapshot])
                      /\ ctl' = Eval(Top.e, TRUE)
                 ELSE /\ stack' = Replace([k |-> "loop0_ws", e |-> Top.e])
                      /\ ctl' = Call(G.ws, TRUE)
            /\ UNCHANGED <<pos, matches>>
       ELSE /\ restore(Top.st)
            /\ stack' = Pop
            /\ ctl' = Ret(TRUE)
  /\ UNCHANGED <<error_pos, rstate>>
  /\ DriverUnchanged

\* _loop1: entry. The first attempt is made without a snapshot.
loop1_parse ==
  /\ Evaluating("loop1")
  /\ IF ctl.term
       THEN /\ stack' = Append(Push(ExprFrame),
                               [k |-> "loop1_first", e |-> ctl.e.e, term |-> TRUE])
            /\ ctl' = Eval(ctl.e.e, TRUE)
       ELSE /\ stack' = Append(Push(ExprFrame),
                               [k |-> "loop1_ws", e |-> ctl.e.e, first |-> TRUE])
            /\ ctl' = Call(G.ws, TRUE)
  /\ UNCHANGED <<pos, error_pos, matches, rstate>>
  /\ DriverUnchanged

\* _loop1::parse_non_term after con.parse_ws()
loop1_ws_return ==
  /\ Returning("loop1_ws")
  /\ stack' = IF Top.first
                THEN Replace([k |-> "loop1_first", e |-> Top.e, term |-> FALSE])
                ELSE Replace([k |-> "loop1", e |-> Top.e, term |-> FALSE, st |-> Snapshot])
  /\ ctl' = Eval(Top.e, FALSE)
  /\ UNCHANGED <<pos, error_pos, matches, rstate>>
  /\ DriverUnchanged

\* _loop1 after the first attempt: "if the first fails, stop" (no restore).
loop1_first_return ==
  /\ Returning("loop1_first")
  /\ IF ctl.ok
       THEN IF Top.term
              THEN /\ stack' = Replace([k |-> "loop1", e |-> Top.e, term |-> TRUE,
                                        st |-> Snapshot])
                   /\ ctl' = Eval(Top.e, TRUE)
              ELSE /\ stack' = Replace([k |-> "loop1_ws", e |-> Top.e, first |-> FALSE])
                   /\ ctl' = Call(G.ws, TRUE)
       ELSE /\ stack' = Pop
            /\ ctl' = Ret(FALSE)
  /\ UNCHANGED <<pos, error_pos, matches, rstate>>
  /\ DriverUnchanged

\* _loop1 after a later attempt: go round again, or restore and stop.
loop1_return ==
  /\ Returning("loop1")
  /\ IF ctl.ok
       THEN /\ IF Top.term
                 THEN /\ stack' = Replace([Top EXCEPT !.st = Snapshot])
                      /\ ctl' = Eval(Top.e, TRUE)
                 ELSE /\ stack' = Replace([k |-> "loop1_ws", e |-> Top.e, first |-> FALSE])
                      /\ ctl' = Call(G.ws, TRUE)
            /\ UNCHANGED <<pos, matches>>
       ELSE /\ restore(Top.st)
            /\ stack' = Pop
            /\ ctl' = Ret(TRUE)
  /\ UNCHANGED <<error_pos, rstate>>
  /\ DriverUnchanged

\* _optional: entry
optional_parse ==
  /\ Evaluating("optional")
  /\ stack' = Append(Push(ExprFrame), [k |-> "optional", st |-> Snapshot])
  /\ ctl' = Eval(ctl.e.e, ctl.term)
  /\ UNCHANGED <<pos, error_pos, matches, rstate>>
  /\ DriverUnchanged

\* _optional after the operand: restore if it failed; always true.
optional_return ==
  /\ Returning("optional")
  /\ IF ctl.ok THEN UNCHANGED <<pos, matches>> ELSE restore(Top.st)
  /\ stack' = Pop
  /\ ctl' = Ret(TRUE)
  /\ UNCHANGED <<error_pos, rstate>>
  /\ DriverUnchanged

\* _and: entry
and_parse ==
  /\ Evaluating("and")
  /\ stack' = Append(Push(ExprFrame), [k |-> "and", st |-> Snapshot])
  /\ ctl' = Eval(ctl.e.e, ctl.term)
  /\ UNCHANGED <<pos, error_pos, matches, rstate>>
  /\ DriverUnchanged

\* _and after the operand: always restore; the operand's result.
and_return ==
  /\ Returning("and")
  /\ restore(Top.st)
  /\ stack' = Pop
  /\ ctl' = Ret(ctl.ok)
  /\ UNCHANGED <<error_pos, rstate>>
  /\ DriverUnchanged

\* _not: entry
not_parse ==
  /\ Evaluating("not")
  /\ stack' = Append(Push(ExprFrame), [k |-> "not", st |-> Snapshot])
  /\ ctl' = Eval(ctl.e.e, ctl.term)
  /\ UNCHANGED <<pos, error_pos, matches, rstate>>
  /\ DriverUnchanged

\* _not after the operand: always restore; the negated result.
not_return ==
  /\ Returning("not")
  /\ restore(Top.st)
  /\ stack' = Pop
  /\ ctl' = Ret(~ctl.ok)
  /\ UNCHANGED <<error_pos, rstate>>
  /\ DriverUnchanged

\* _nl: entry
nl_parse ==
  /\ Evaluating("nl")
  /\ stack' = Append(Push(ExprFrame), [k |-> "nl"])
  /\ ctl' = Eval(ctl.e.e, ctl.term)
  /\ UNCHANGED <<pos, error_pos, matches, rstate>>
  /\ DriverUnchanged

\* _nl after the operand: on success bump the line counter.
nl_return ==
  /\ Returning("nl")
  /\ pos' = IF ctl.ok THEN next_line(pos) ELSE pos
  /\ stack' = Pop
  /\ UNCHANGED <<ctl, error_pos, matches, rstate>>
  /\ DriverUnchanged

\* --------------------------------------------------- binary operators
\* _seq: entry
seq_parse ==
  /\ Evaluating("seq")
  /\ stack' = Append(Push(ExprFrame), [k |-> "seq", r |-> ctl.e.r, term |-> ctl.term])
  /\ ctl' = Eval(ctl.e.l, ctl.term)
  /\ UNCHANGED <<pos, error_pos, matches, rstate>>
  /\ DriverUnchanged

\* A _seq that goes on to its right operand without con.parse_ws().
seq_return_no_ws ==
  /\ Returning("seq")
  /\ stack' = Pop
  /\ ctl' = IF ctl.ok THEN Eval(Top.r, Top.term) ELSE Ret(FALSE)
  /\ UNCHANGED <<pos, error_pos, matches, rstate>>
  /\ DriverUnchanged

\* _seq after the left operand: false if it failed (no restore); else the
\* right operand, in non-term mode after con.parse_ws().
seq_return ==
  /\ Returning("seq")
  /\ IF ~ctl.ok
       THEN /\ stack' = Pop
            /\ ctl' = Ret(FALSE)
       ELSE IF Top.term
              THEN /\ stack' = Pop
                   /\ ctl' = Eval(Top.r, TRUE)
              ELSE /\ stack' = Replace([k |-> "seq_ws", r |-> Top.r])
                   /\ ctl' = Call(G.ws, TRUE)
  /\ UNCHANGED <<pos, error_pos, matches, rstate>>
  /\ DriverUnchanged

\* _seq::parse_non_term after con.parse_ws(): the right operand's result is the
\* sequence's.
seq_ws_return ==
  /\ Returning("seq_ws")
  /\ stack' = Pop
  /\ ctl' = Eval(Top.r, FALSE)
  /\ UNCHANGED <<pos, error_pos, matches, rstate>>
  /\ DriverUnchanged

\* _choice: entry
choice_parse ==
  /\ Evaluating("choice")
  /\ stack' = Append(Push(ExprFrame),
                     [k |-> "choice", r |-> ctl.e.r, term |-> ctl.term, st |-> Snapshot])
  /\ ctl' = Eval(ctl.e.l, ctl.term)
  /\ UNCHANGED <<pos, error_pos, matches, rstate>>
  /\ DriverUnchanged

\* _choice that tries the right operand from wherever the left one stopped.
choice_return_no_restore ==
  /\ Returning("choice")
  /\ ctl' = IF ctl.ok THEN Ret(TRUE) ELSE Eval(Top.r, Top.term)
  /\ stack' = Pop
  /\ UNCHANGED <<pos, matches, error_pos, rstate>>
  /\ DriverUnchanged

\* _choice after the left operand: true if it matched; else restore and the
\* right operand, whose result is the choice's.
choice_return ==
  /\ Returning("choice")
  /\ IF ctl.ok
       THEN /\ ctl' = Ret(TRUE)
            /\ UNCHANGED <<pos, matches>>
       ELSE /\ restore(Top.st)
            /\ ctl' = Eval(Top.r, Top.term)
  /\ stack' = Pop
  /\ UNCHANGED <<error_pos, rstate>>
  /\ DriverUnchanged

\* _ref::parse_non_term, _ref::parse_term
ref_parse ==
  /\ Evaluating("ref")
  /\ stack' = Push(ExprFrame)
  /\ ctl' = Call(ctl.e.r, ctl.term)
  /\ UNCHANGED <<pos, error_pos, matches, rstate>>
  /\ DriverUnchanged


\* ------------------------------------------- rules: left-recursion protocol
\* The activation of _context::_parse_non_term / _parse_term: `pos b = m_pos`.
ParseFrame(r, t) == [k |-> "_parse", r |-> r, term |-> t, b |-> pos]

\* The activation of _context::parse_non_term / parse_term at its call of
\* _parse_non_term / _parse_term: which call it is (kind), old_state, new_pos.
RuleFrame(kind, r, t, old) ==
  [k |-> kind, r |-> r, term |-> t, old |-> old, new_pos |-> pos.it]

Entering == pc = "run" /\ ctl.op = "call"
\* bool lr = new_pos == r.m_state.m_pos
lr == pos.it = rstate[ctl.r].pos

\* case rule::_PARSE with lr: the seed attempt, the rule in _REJECT mode.
parse_rule_seed ==
  /\ Entering
  /\ rstate[ctl.r].mode = "PARSE"
  /\ lr
  /\ rstate' = [rstate EXCEPT ![ctl.r] = [mode |-> "REJECT", pos |-> pos.it]]
  /\ stack' = Append(Push(RuleFrame("seed", ctl.r, ctl.term, rstate[ctl.r])),
                     ParseFrame(ctl.r, ctl.term))
  /\ ctl' = Eval(Body(ctl.r), ctl.term)
  /\ UNCHANGED <<pos, error_pos, matches>>
  /\ DriverUnchanged

\* After the seed attempt: false if it failed; else the rule goes to _ACCEPT
\* mode and the first iteration of the grow loop starts.
seed_return ==
  /\ Returning("seed")
  /\ IF ctl.ok
       THEN /\ rstate' = [rstate EXCEPT ![Top.r] = [mode |-> "ACCEPT", pos |-> pos.it]]
            /\ stack' = Append(Replace([k |-> "grow", r |-> Top.r, term |-> Top.term,
                                        old |-> Top.old, new_pos |-> Top.new_pos,
                                        st |-> Snapshot]),
                               ParseFrame(Top.r, Top.term))
            /\ ctl' = Eval(Body(Top.r), Top.term)
       ELSE /\ rstate' = [rstate EXCEPT ![Top.r] = Top.old]
            /\ stack' = Pop
            /\ ctl' = Ret(FALSE)
  /\ UNCHANGED <<pos, error_pos, matches>>
  /\ DriverUnchanged

\* A grow loop that stops on a failed iteration without restore(st).
grow_return_no_restore ==
  /\ Returning("grow")
  /\ IF ctl.ok
       THEN /\ rstate' = [rstate EXCEPT ![Top.r].pos = pos.it]
            /\ stack' = Append(Replace([Top EXCEPT !.st = Snapshot]),
                               ParseFrame(Top.r, Top.term))
            /\ ctl' = Eval(Body(Top.r), Top.term)
       ELSE /\ rstate' = [rstate EXCEPT ![Top.r] = Top.old]
            /\ stack' = Pop
            /\ ctl' = Throw(Top.r)
  /\ UNCHANGED <<pos, matches, error_pos>>
  /\ DriverUnchanged

\* After an iteration of the grow loop: go round again if it succeeded; else
\* restore the last good state, restore the rule's state and throw _lr_ok.
grow_return ==
  /\ Returning("grow")
  /\ IF ctl.ok
       THEN /\ rstate' = [rstate EXCEPT ![Top.r].pos = pos.it]
            /\ stack' = Append(Replace([Top EXCEPT !.st = Snapshot]),
                               ParseFrame(Top.r, Top.term))
            /\ ctl' = Eval(Body(Top.r), Top.term)
            /\ UNCHANGED <<pos, matches>>
       ELSE /\ restore(Top.st)
            /\ rstate' = [rstate EXCEPT ![Top.r] = Top.old]
            /\ stack' = Pop
            /\ ctl' = Throw(Top.r)
  /\ UNCHANGED error_pos
  /\ DriverUnchanged

\* case rule::_PARSE without lr: the body, inside try.
parse_rule_try ==
  /\ Entering
  /\ rstate[ctl.r].mode = "PARSE"
  /\ ~lr
  /\ rstate' = [rstate EXCEPT ![ctl.r].pos = pos.it]
  /\ stack' = Append(Push(RuleFrame("try", ctl.r, ctl.term, rstate[ctl.r])),
                     ParseFrame(ctl.r, ctl.term))
  /\ ctl' = Eval(Body(ctl.r), ctl.term)
  /\ UNCHANGED <<pos, error_pos, matches>>
  /\ DriverUnchanged

\* A normal return that leaves the rule's state as the invocation set it.
try_return_no_restore ==
  /\ Returning("try")
  /\ stack' = Pop
  /\ UNCHANGED <<ctl, pos, error_pos, matches, rstate>>
  /\ DriverUnchanged

\* The body returned normally: restore the rule's state, return its result.
try_return ==
  /\ Returning("try")
  /\ rstate' = [rstate EXCEPT ![Top.r] = Top.old]
  /\ stack' = Pop
  /\ UNCHANGED <<ctl, pos, error_pos, matches>>
  /\ DriverUnchanged

\* catch (const _lr_ok &ex): success if it is this rule's; else restore the
\* rule's state and rethrow.
try_catch ==
  /\ pc = "run" /\ ctl.op = "throw" /\ stack # <<>> /\ Top.k = "try"
  /\ rstate' = [rstate EXCEPT ![Top.r] = Top.old]
  /\ stack' = Pop
  /\ ctl' = IF ctl.r = Top.r THEN Ret(TRUE) ELSE ctl
  /\ UNCHANGED <<pos, error_pos, matches>>
  /\ DriverUnchanged

\* case rule::_REJECT answering true on left recursion.
parse_rule_reject_true ==
  /\ Entering
  /\ rstate[ctl.r].mode = "REJECT"
  /\ IF lr
       THEN /\ ctl' = Ret(TRUE)
            /\ UNCHANGED <<rstate, stack>>
       ELSE /\ rstate' = [rstate EXCEPT ![ctl.r] = [mode |-> "PARSE", pos |-> pos.it]]
            /\ stack' = Append(Push(RuleFrame("reject", ctl.r, ctl.term, rstate[ctl.r])),
                               ParseFrame(ctl.r, ctl.term))
            /\ ctl' = Eval(Body(ctl.r), ctl.term)
  /\ UNCHANGED <<pos, error_pos, matches>>
  /\ DriverUnchanged

\* case rule::_REJECT: false on left recursion; else the body in _PARSE mode.
parse_rule_reject ==
  /\ Entering
  /\ rstate[ctl.r].mode = "REJECT"
  /\ IF lr
       THEN /\ ctl' = Ret(FALSE)
            /\ UNCHANGED <<rstate, stack>>
       ELSE /\ rstate' = [rstate EXCEPT ![ctl.r] = [mode |-> "PARSE", pos |-> pos.it]]
            /\ stack' = Append(Push(RuleFrame("reject", ctl.r, ctl.term, rstate[ctl.r])),
                               ParseFrame(ctl.r, ctl.term))
            /\ ctl' = Eval(Body(ctl.r), ctl.term)
  /\ UNCHANGED <<pos, error_pos, matches>>
  /\ DriverUnchanged

\* case rule::_REJECT after the body: mode back to _REJECT, then the old state.
reject_return ==
  /\ Returning("reject")
  /\ rstate' = [rstate EXCEPT ![Top.r] = Top.old]
  /\ stack' = Pop
  /\ UNCHANGED <<ctl, pos, error_pos, matches>>
  /\ DriverUnchanged

\* case rule::_ACCEPT answering false on left recursion.
parse_rule_accept_false ==
  /\ Entering
  /\ rstate[ctl.r].mode = "ACCEPT"
  /\ IF lr
       THEN /\ ctl' = Ret(FALSE)
            /\ UNCHANGED <<rstate, stack>>
       ELSE /\ rstate' = [rstate EXCEPT ![ctl.r] = [mode |-> "PARSE", pos |-> pos.it]]
            /\ stack' = Append(Push(RuleFrame("accept", ctl.r, ctl.term, rstate[ctl.r])),
                               ParseFrame(ctl.r, ctl.term))
            /\ ctl' = Eval(Body(ctl.r), ctl.term)
  /\ UNCHANGED <<pos, error_pos, matches>>
  /\ DriverUnchanged

\* case rule::_ACCEPT: true on left recursion; else the body in _PARSE mode.
parse_rule_accept ==
  /\ Entering
  /\ rstate[ctl.r].mode = "ACCEPT"
  /\ IF lr
       THEN /\ ctl' = Ret(TRUE)
            /\ UNCHANGED <<rstate, stack>>
       ELSE /\ rstate' = [rstate EXCEPT ![ctl.r] = [mode |-> "PARSE", pos |-> pos.it]]
            /\ stack' = Append(Push(RuleFrame("accept", ctl.r, ctl.term, rstate[ctl.r])),
                               ParseFrame(ctl.r, ctl.term))
            /\ ctl' = Eval(Body(ctl.r), ctl.term)
  /\ UNCHANGED <<pos, error_pos, matches>>
  /\ DriverUnchanged

\* case rule::_ACCEPT after the body: mode back to _ACCEPT, and no more.
accept_return_mode_only ==
  /\ Returning("accept")
  /\ rstate' = [rstate EXCEPT ![Top.r].mode = "ACCEPT"]
  /\ stack' = Pop
  /\ UNCHANGED <<ctl, pos, error_pos, matches>>
  /\ DriverUnchanged

\* case rule::_ACCEPT after the body: mode back to _ACCEPT, then the old state.
accept_return ==
  /\ Returning("accept")
  /\ rstate' = [rstate EXCEPT ![Top.r] = Top.old]
  /\ stack' = Pop
  /\ UNCHANGED <<ctl, pos, error_pos, matches>>
  /\ DriverUnchanged

\* _context::_parse_non_term / _parse_term after the body: a rule with a parse
\* proc that matched is appended to the matches.
parse_body_return ==
  /\ Returning("_parse")
  /\ IF HasParseProc(Top.r) /\ ctl.ok
       THEN /\ Len(matches) < MaxMatches
            /\ matches' = Append(matches, [rule |-> Top.r, begin |-> Top.b, end |-> pos])
       ELSE matches' = matches
  /\ stack' = Pop
  /\ UNCHANGED <<ctl, pos, error_pos, rstate>>
  /\ DriverUnchanged

\* The frames of parse() itself.
DriverFrames == {"parse_ws1", "parse_g", "parse_ws2"}

\* _lr_ok passing through an activation that has no handler for it: every
\* activation but the try of a rule in _PARSE mode.
unwind ==
  /\ pc = "run" /\ ctl.op = "throw" /\ stack # <<>>
  /\ Top.k \notin DriverFrames \cup {"try"}
  /\ stack' = Pop
  /\ UNCHANGED <<ctl, pos, error_pos, matches, rstate>>
  /\ DriverUnchanged

\* ---------------------------------------------------------------- driver
\* _next_pos
next_pos(p) == [p EXCEPT !.it = @ + 1, !.col = @ + 1]
\* _syntax_error
syntax_error == [begin |-> error_pos, end |-> next_pos(error_pos), type |-> "SYNTAX_ERROR"]
\* An end-of-input error placed at the current position.
eof_error_at_pos == [begin |-> pos, end |-> pos, type |-> "INVALID_EOF"]
\* _eof_error
eof_error == [begin |-> error_pos, end |-> error_pos, type |-> "INVALID_EOF"]

\* do_parse_procs iterating the matches from the last to the first.
do_parse_procs_backwards(d) ==
  [i \in 1..Len(matches) |->
     [rule |-> matches[Len(matches) + 1 - i].rule,
      begin |-> matches[Len(matches) + 1 - i].begin,
      end |-> matches[Len(matches) + 1 - i].end, d |-> d]]

\* _context::do_parse_procs: the parse procs called, in order
do_parse_procs(d) ==
  [i \in 1..Len(matches) |->
     [rule |-> matches[i].rule, begin |-> matches[i].begin, end |-> matches[i].end, d |-> d]]

Finish(res) ==
  /\ result' = res
  /\ pc' = "done"
  /\ stack' = <<>>
  /\ ctl' = [op |-> "idle"]

\* parse(): the context is built and the initial whitespace parsed.
parse_start ==
  /\ pc = "start"
  /\ pc' = "run"
  /\ stack' = <<[k |-> "parse_ws1"]>>
  /\ ctl' = Call(G.ws, TRUE)
  /\ UNCHANGED <<objects, parse_proc_map, made, prev, gram, input, pos, error_pos, matches, rstate, result, el, calls>>

\* parse(): after the initial whitespace, the grammar.
parse_grammar ==
  /\ Returning("parse_ws1")
  /\ stack' = Replace([k |-> "parse_g"])
  /\ ctl' = Call(G.root, FALSE)
  /\ UNCHANGED <<pos, error_pos, matches, rstate>>
  /\ DriverUnchanged

\* parse(): after the grammar: a syntax error, or the whitespace at the end.
\* _syntax_error reads the character at m_error_pos; parse() calls it here
\* without testing that m_error_pos is before m_end, and with m_error_pos at
\* m_end that read is outside the input: the read yields some character and the
\* error is built, or the program stops there ("crash", parse() never returns).
parse_grammar_return ==
  /\ Returning("parse_g")
  /\ IF ~ctl.ok
       THEN \/ /\ el' = Append(el, syntax_error)
               /\ Finish("false")
            \/ /\ end(error_pos)
               /\ el' = el
               /\ Finish("crash")
       ELSE /\ stack' = Replace([k |-> "parse_ws2"])
            /\ ctl' = Call(G.ws, TRUE)
            /\ UNCHANGED <<el, result, pc>>
  /\ UNCHANGED <<objects, parse_proc_map, made, prev, gram, input, pos, error_pos, matches, rstate, calls>>

\* parse() executing the parse procs before it checks that the end is reached.
parse_end_procs_first ==
  /\ pc = "run" /\ ctl.op = "ret" /\ stack # <<>> /\ Top.k = "parse_ws2"
  /\ calls' = calls \o [i \in 1..Len(matches) |->
                          [rule |-> matches[i].rule, begin |-> matches[i].begin,
                           end |-> matches[i].end, d |-> UserData]]
  /\ IF pos.it # Len(input)
       THEN /\ el' = Append(el, [begin |-> error_pos, end |-> error_pos, type |-> "INVALID_EOF"])
            /\ result' = "false"
       ELSE /\ el' = el
            /\ result' = "true"
  /\ pc' = "done"
  /\ stack' = <<>>
  /\ ctl' = [op |-> "idle"]
  /\ UNCHANGED <<objects, parse_proc_map, made, prev, gram, input, pos, error_pos, matches, rstate>>

\* parse() reporting a syntax error whenever the end is not reached.
parse_end_syntax_only ==
  /\ Returning("parse_ws2")
  /\ IF ~end(pos)
       THEN /\ el' = Append(el, syntax_error)
            /\ calls' = calls
            /\ Finish("false")
       ELSE /\ calls' = calls \o do_parse_procs(UserData)
            /\ el' = el
            /\ Finish("true")
  /\ UNCHANGED <<objects, parse_proc_map, made, prev, gram, input, pos, error_pos, matches, rstate>>

\* parse(): after the whitespace at the end: an error if the end is not
\* reached, else the parse procs are executed.
parse_end ==
  /\ Returning("parse_ws2")
  /\ IF ~end(pos)
       THEN /\ el' = Append(el, IF error_pos.it < Len(input) THEN syntax_error
                                ELSE eof_error)
            /\ calls' = calls
            /\ Finish("false")
       ELSE /\ calls' = calls \o do_parse_procs(UserData)
            /\ el' = el
            /\ Finish("true")
  /\ UNCHANGED <<objects, parse_proc_map, made, prev, gram, input, pos, error_pos, matches, rstate>>

\* What a call of parse() gave its caller: the value returned, the error list,
\* the parse procs invoked, and the matches of its context.
Outcome == [result |-> result, el |-> el, calls |-> calls, matches |-> matches]

\* The caller calls parse() once more, with the same rules (whose m_state is
\* whatever the first call left), the same input and a fresh error list.
parse_again ==
  /\ pc = "done"
  /\ result \in {"true", "false"}
  /\ prev = <<>>
  /\ prev' = <<Outcome>>
  /\ pos' = BeginPos
  /\ error_pos' = BeginPos
  /\ matches' = <<>>
  /\ stack' = <<>>
  /\ ctl' = [op |-> "idle"]
  /\ pc' = "start"
  /\ result' = "none"
  /\ el' = <<>>
  /\ calls' = <<>>
  /\ UNCHANGED <<gram, input, rstate, objects, parse_proc_map, made>>

Next ==
  \/ parse_start \/ parse_grammar \/ parse_grammar_return \/ parse_end
  \/ parse_again
  \/ char_parse \/ string_parse \/ set_parse \/ any_parse \/ eof_parse
  \/ expr_return
  \/ term_parse
  \/ loop0_parse \/ loop0_ws_return \/ loop0_return
  \/ loop1_parse \/ loop1_ws_return \/ loop1_first_return \/ loop1_return
  \/ optional_parse \/ optional_return
  \/ and_parse \/ and_return
  \/ not_parse \/ not_return
  \/ nl_parse \/ nl_return
  \/ seq_parse \/ seq_return \/ seq_ws_return
  \/ choice_parse \/ choice_return
  \/ ref_parse
  \/ parse_rule_seed \/ seed_return \/ grow_return
  \/ parse_rule_try \/ try_return \/ try_catch
  \/ parse_rule_reject \/ reject_return
  \/ parse_rule_accept \/ accept_return
  \/ parse_body_return
  \/ unwind

Spec == Init /\ [][Next]_vars

\* parse() is one sequential call: a step that can be taken is taken.
FairSpec == Spec /\ WF_vars(Next)

\* ------------------------------------------- rule objects and their actions
\* What the life of the rule objects leaves alone: the context of a parse.
ContextUnchanged ==
  UNCHANGED <<gram, input, pos, error_pos, matches, rstate, stack, ctl, pc, result,
              el, calls, prev>>

\* _get_parse_proc
get_parse_proc(a) == parse_proc_map[a]

\* rule::rule at address a: m_parse_proc = _get_parse_proc(this).
rule_rule(a) ==
  /\ ~objects[a].alive
  /\ objects' = [objects EXCEPT ![a] = [alive |-> TRUE,
                                        m_parse_proc |-> get_parse_proc(a),
                                        bound |-> FALSE]]
  /\ UNCHANGED <<parse_proc_map, made>>
  /\ ContextUnchanged

\* rule::~rule: delete m_expr, and no more.
rule_delete(a) ==
  /\ objects[a].alive
  /\ objects' = [objects EXCEPT ![a] = NoRule]
  /\ UNCHANGED <<parse_proc_map, made>>
  /\ ContextUnchanged

\* rule::set_parse_proc
rule_set_parse_proc(a, p) ==
  /\ objects[a].alive
  /\ objects' = [objects EXCEPT ![a].m_parse_proc = p, ![a].bound = TRUE]
  /\ parse_proc_map' = [parse_proc_map EXCEPT ![a] = p]
  /\ UNCHANGED made
  /\ ContextUnchanged

\* _context::_parse_non_term / _parse_term on the rule at address a, its
\* expression matching: a match record is pushed if the rule has a parse proc.
rule_parse(a) ==
  /\ objects[a].alive
  /\ Len(made) < MaxMade
  /\ made' = IF objects[a].m_parse_proc # NoProc THEN Append(made, a) ELSE made
  /\ UNCHANGED <<objects, parse_proc_map>>
  /\ ContextUnchanged

RuleNext ==
  \/ \E a \in Addresses : rule_rule(a)
  \/ \E a \in Addresses : rule_delete(a)
  \/ \E a \in Addresses, p \in Procs : rule_set_parse_proc(a, p)
  \/ \E a \in Addresses : rule_parse(a)

\* The program before it calls parse(): rules come, are bound and go.
RuleInit == gram = "unproductive" /\ input = <<>> /\ Init
RuleSpec == RuleInit /\ [][RuleNext]_vars


\* ====================================================================
\* Properties
\* ====================================================================
\* A match or a call as (rule, begin offset, end offset).
Rec(m) == <<m.rule, m.begin.it, m.end.it>>
\* The places of (r, b, e) in a log.
Places(log, r, b, e) == { i \in 1..Len(log) : Rec(log[i]) = <<r, b, e>> }
Parsed(g, inp) == gram = g /\ input = inp /\ pc = "done"

\* C1: an expression of any variant that returns false leaves the context's
\* position and the length of the match log as they were when it was entered.
BacktrackingPurity ==
  (Returning("expr") /\ ~ctl.ok) =>
    (pos = Top.pos /\ Len(matches) = Top.matches)

\* C2: every iteration of the grow loop that succeeds either ends strictly past
\* the end of the previous one (or of the seed), or makes the loop restore to
\* that end and stop; so the grow loop terminates.
GrowProgress ==
  [][ (Returning("grow") /\ ctl.ok) =>
        \/ pos.it > Top.st.pos.it
        \/ (ctl'.op = "throw" /\ pos' = Top.st.pos) ]_vars

\* C3: with the calculator grammar, parse of "16+26" returns true and the parse
\* procs are called for num on "16", num on "26", then add_op on "16+26".
Calculator16Plus26 ==
  Parsed("calculator", <<"1", "6", "+", "2", "6">>) =>
    /\ result = "true"
    /\ Len(calls) = 3
    /\ Rec(calls[1]) = <<"num", 0, 2>>
    /\ Rec(calls[2]) = <<"num", 3, 5>>
    /\ Rec(calls[3]) = <<"add_op", 0, 5>>

\* C4: with expr = expr '+' expr | expr '-' expr | num, parse of "1+2-3" returns
\* true and the matches nest to the left: a '+' record on "1+2" comes before a
\* '-' record on "1+2-3", and no operator record covers "2-3".
ArithLeftAssociative ==
  Parsed("arith", <<"1", "+", "2", "-", "3">>) =>
    /\ result = "true"
    /\ \E i \in Places(matches, "add_op", 0, 3) :
         \E j \in Places(matches, "sub_op", 0, 5) : i < j
    /\ Places(matches, "sub_op", 2, 5) = {}
    /\ Places(matches, "add_op", 2, 5) = {}

\* C5: with the language grammar, parse of "foo.bar" succeeds with a
\* FieldReference on the whole input, after NameReference on "foo" and Identifier
\* on "bar"; parse of "foo.bar.baz" succeeds with a FieldReference on the whole
\* input after the FieldReference on "foo.bar".
LanguageFieldReference ==
  /\ Parsed("language", <<"f", "o", "o", ".", "b", "a", "r">>) =>
       /\ result = "true"
       /\ \E p \in Places(matches, "FieldReference", 0, 7) :
            /\ \E i \in Places(matches, "NameReference", 0, 3) : i < p
            /\ \E i \in Places(matches, "Identifier", 4, 7) : i < p
  /\ Parsed("language", <<"f", "o", "o", ".", "b", "a", "r", ".", "b", "a", "z">>) =>
       /\ result = "true"
       /\ \E p \in Places(matches, "FieldReference", 0, 11) :
            \E i \in Places(matches, "FieldReference", 0, 7) : i < p

\* C6: the completion of the left recursion of a rule r (the _lr_ok thrown for
\* r) never tears down the seed attempt or the grow loop of another rule that is
\* in flight: that rule runs its own seed and grow steps to completion.
MutualIsolation ==
  ~ ( /\ pc = "run" /\ ctl.op = "throw" /\ stack # <<>>
      /\ Top.k \in {"seed", "grow"}
      /\ Top.r # ctl.r )

\* C7: no parse proc is called before parse() is over, none when it returns
\* false, and when it returns true the parse proc of every record of the final
\* matches is called exactly once, in order, with the record's begin and end and
\* the caller's user data.
DeferredActions ==
  /\ pc # "done" => calls = <<>>
  /\ result = "false" => calls = <<>>
  /\ result = "true" =>
       /\ Len(calls) = Len(matches)
       /\ \A i \in 1..Len(matches) :
            /\ calls[i].rule = matches[i].rule
            /\ calls[i].begin = matches[i].begin
            /\ calls[i].end = matches[i].end
            /\ calls[i].d = UserData
DeferredActionsWitness ==
  /\ result = "true"
  /\ Len(calls) >= 3

\* c's range lies within p's range.
Within(c, p) == p.begin.it <= c.begin.it /\ c.end.it <= p.end.it

\* C8 as stated: on success, of any two records, one whose range is contained
\* in the other's has its parse proc called first.
ActionOrderAnyRange ==
  result = "true" =>
    \A i, j \in 1..Len(calls) :
      (i # j /\ Within(calls[i], calls[j])) => i < j

\* C8 as amended: on success, of any two records, one whose range is not empty
\* and is contained in, and different from, the other's has its parse proc
\* called first.
ActionOrder ==
  result = "true" =>
    \A i, j \in 1..Len(calls) :
      ( /\ i # j
        /\ Within(calls[i], calls[j])
        /\ calls[i].begin.it < calls[i].end.it
        /\ <<calls[i].begin.it, calls[i].end.it>> # <<calls[j].begin.it, calls[j].end.it>> )
      => i < j
ActionOrderWitness ==
  /\ result = "true"
  /\ \E i, j \in 1..Len(calls) :
       /\ i < j
       /\ Within(calls[i], calls[j])
       /\ calls[i].begin.it < calls[i].end.it
       /\ calls[j].begin.it < calls[i].begin.it
       /\ calls[i].end.it < calls[j].end.it

\* An invocation of the engine on a rule completes with success: the body
\* returned true to it, or it caught the _lr_ok of its own rule.
CompletesTrue ==
  /\ pc = "run" /\ stack # <<>>
  /\ \/ ctl.op = "ret" /\ ctl.ok /\ Top.k \in {"try", "reject", "accept"}
     \/ ctl.op = "throw" /\ Top.k = "try" /\ ctl.r = Top.r

\* C9: when an invocation of a rule with a parse proc, entered at b, completes
\* with success leaving the context at e, the matches hold the record (r, b, e);
\* also when it is the outer invocation of a left-recursive rule.
MatchRecording ==
  [][ (CompletesTrue /\ HasParseProc(Top.r)) =>
        \E i \in 1..Len(matches') :
          /\ matches'[i].rule = Top.r
          /\ matches'[i].begin.it = Top.new_pos
          /\ matches'[i].end = pos' ]_vars

\* C10: within a call of parse the furthest-error position never decreases; a
\* step that restores the context leaves it alone; it changes only to the
\* current position, and only when that is strictly greater.
ErrorPosMonotonic ==
  [][ pc' # "start" =>
        /\ error_pos'.it >= error_pos.it
        /\ (pos'.it < pos.it \/ Len(matches') < Len(matches)) => error_pos' = error_pos
        /\ error_pos' # error_pos => (error_pos' = pos' /\ pos'.it > error_pos.it) ]_vars
ErrorPosMonotonicWitness ==
  /\ pc = "run"
  /\ pos.it < error_pos.it
  /\ ctl.op = "ret" /\ ~ctl.ok

\* The greater of two offsets.
Max(a, b) == IF a > b THEN a ELSE b

\* One of the character-level matchers is about to be evaluated.
CharLevel ==
  pc = "run" /\ ctl.op = "eval" /\ ctl.e.t \in {"char", "string", "set", "any", "eof"}

\* C11: a character-level matcher (Char, String, Set, Any, Eof) that fails with
\* the context at position q returns false and leaves the furthest-error
\* position at the greater of its previous value and q; one that succeeds does
\* not touch the furthest-error position and moves the position forward (Eof,
\* which matches no character, may leave it where it is).
CharMatcherErrorPos ==
  [][ CharLevel =>
        IF ctl'.ok
          THEN /\ error_pos' = error_pos
               /\ pos'.it >= pos.it
               /\ ctl.e.t # "eof" => pos'.it > pos.it
          ELSE error_pos'.it = Max(error_pos.it, pos'.it) ]_vars

\* C12: String(cs) is all-or-nothing: when it returns true the position has
\* advanced by exactly the length of cs, and when it returns false (a character
\* mismatches or the input ends first) the position is where it was.
StringAllOrNothing ==
  (Returning("expr") /\ Top.e.t = "string") =>
    IF ctl.ok THEN pos.it = Top.pos.it + Len(Top.e.s)
              ELSE pos = Top.pos

\* The places in the stack of the Terminals in flight.
TerminalAt == { i \in 1..Len(stack) : stack[i].k = "expr" /\ stack[i].e.t = "term" }
InsideTerminal == TerminalAt # {}

\* C13: while an expression inside a Terminal(e) subtree is evaluated, also
\* through rule references reached from e, the whitespace rule is not invoked:
\* every evaluation and every rule entered there is in term mode, and no Seq,
\* ZeroOrMore or OneOrMore there is waiting for parse_ws to return.
WhitespaceScoping ==
  InsideTerminal =>
    /\ ctl.op \in {"eval", "call"} => ctl.term
    /\ \A i \in TerminalAt : \A j \in (i + 1)..Len(stack) :
         /\ stack[j].k \notin {"seq_ws", "loop0_ws", "loop1_ws"}
         /\ "term" \in DOMAIN stack[j] => stack[j].term
WhitespaceScopingWitness ==
  /\ InsideTerminal
  /\ \E i \in TerminalAt : \E j \in (i + 1)..Len(stack) : \E l \in (j + 1)..Len(stack) :
       /\ stack[j].k = "loop0"
       /\ stack[l].k = "_parse"
       /\ Top.k = "seq"
  /\ ctl.op = "ret" /\ ctl.ok

DriverTrailingPath ==
  [][ Returning("parse_ws2") =>
        IF ~end(pos)
          THEN /\ result' = "false"
               /\ Len(el') = 1
               /\ IF error_pos.it < Len(input)
                    THEN /\ el'[1].type = "SYNTAX_ERROR"
                         /\ el'[1].begin = error_pos
                    ELSE /\ error_pos.it = Len(input)
                         /\ el'[1] = [begin |-> error_pos, end |-> error_pos,
                                      type |-> "INVALID_EOF"]
          ELSE result' = "true" /\ el' = <<>> ]_vars
DriverTrailingPathWitness ==
  /\ pc = "done" /\ result = "false"
  /\ pos.it < Len(input)
  /\ Len(el) = 1 /\ el[1].type = "INVALID_EOF"
  /\ Len(matches) > 0

\* The one-plus input of the scenario table.
OnePlus == <<"1", "+">>

\* C16 as stated: with expr = expr '+' expr | expr '-' expr | num, parse of
\* "1+" returns false and reports exactly one error, of kind SYNTAX, that
\* begins at offset 2.
OnePlusSyntaxError ==
  Parsed("arith", OnePlus) =>
    /\ result = "false"
    /\ Len(el) = 1
    /\ el[1].type = "SYNTAX_ERROR"
    /\ el[1].begin.it = 2

\* C16 as amended: parse of "1+" returns false and reports exactly one error,
\* of kind INVALID_EOF, that begins and ends at offset 2, the end of the input.
OnePlusEofError ==
  Parsed("arith", OnePlus) =>
    /\ result = "false"
    /\ Len(el) = 1
    /\ el[1].type = "INVALID_EOF"
    /\ el[1].begin.it = 2
    /\ el[1].end.it = 2
OnePlusEofErrorWitness ==
  /\ Parsed("arith", OnePlus)
  /\ error_pos.it = 2
  /\ pos.it = 1
  /\ el # <<>>

\* C17: every SYNTAX error parse() reports begins strictly before the end of
\* the input, so the character at its begin exists.
SyntaxErrorInterior ==
  \A i \in 1..Len(el) : el[i].type = "SYNTAX_ERROR" => el[i].begin.it < Len(input)

\* The records of a log as (rule, begin offset, end offset).
Recs(log) == [i \in 1..Len(log) |-> Rec(log[i])]

\* The parenthesised input of the scenario table, " ( 7 ) ".
ParenSeven == <<" ", "(", " ", "7", " ", ")", " ">>

\* C18: with expr = '(' expr ')' | num; num = [0-9]+ and whitespace ' ', parse
\* of " ( 7 ) " returns true, the only num record covers exactly the character
\* '7' (offsets 3 to 4), and an expr record covers the parenthesised expression
\* (offsets 1 to 6).
ParenSevenRecords ==
  Parsed("paren", ParenSeven) =>
    /\ result = "true"
    /\ \A i \in 1..Len(calls) : calls[i].rule = "num" => Rec(calls[i]) = <<"num", 3, 4>>
    /\ Places(calls, "num", 3, 4) # {}
    /\ Places(calls, "expr", 1, 6) # {}

\* The dotted input of the scenario table, "foo . bar".
FooDotBar == <<"f", "o", "o", " ", ".", " ", "b", "a", "r">>

\* A step that moves the position over a space of the input.
ConsumesSpace == pos'.it > pos.it /\ symbol(pos) = " "

\* C19: with id = term(+letter) and root = id '.' id, parse of "foo . bar"
\* returns true with the id records "foo" (0 to 3) and "bar" (6 to 9), which
\* hold no space; every space is consumed outside the Terminal, by the
\* whitespace skip of the non-terminal Seq.
IdentifierStopsAtSpace ==
  /\ [](Parsed("id", FooDotBar) =>
          /\ result = "true"
          /\ Recs(calls) = << <<"id", 0, 3>>, <<"id", 6, 9>> >>)
  /\ [][ (gram = "id" /\ input = FooDotBar /\ ConsumesSpace) =>
           /\ ~InsideTerminal
           /\ \E i \in 1..Len(stack) : stack[i].k = "seq_ws" ]_vars
IdentifierStopsAtSpaceWitness ==
  /\ Parsed("id", FooDotBar)
  /\ result = "true"
  /\ Len(calls) = 2
  /\ pos.it = 9

\* C20: with a = a, parse of "x" terminates and returns false: the seed attempt
\* in mode _REJECT fails, no grow loop is entered, no _lr_ok is thrown, and the
\* furthest-error position is at offset 0.
UnproductiveCase == gram = "unproductive" /\ input = <<"x">>
UnproductiveFails ==
  /\ [](UnproductiveCase =>
          /\ \A i \in 1..Len(stack) : stack[i].k # "grow"
          /\ ctl.op # "throw"
          /\ error_pos.it = 0
          /\ (Returning("seed") => ~ctl.ok)
          /\ (pc = "done" => result = "false"))
  /\ (UnproductiveCase ~> (pc = "done"))
UnproductiveFailsWitness ==
  /\ UnproductiveCase
  /\ pc = "done"
  /\ result = "false"
  /\ rstate["a"] = InitialRuleState
  /\ Len(el) = 1

\* parse() has returned to its caller.
Returned == pc = "done" /\ result \in {"true", "false"}

\* C21: when parse() returns, the state of every rule is back to its initial
\* value, and a second parse() on the same rules and the same input returns the
\* same value with the same matches, the same parse procs invoked and the same
\* error.
Determinism ==
  Returned =>
    /\ \A r \in Rules : rstate[r] = InitialRuleState
    /\ prev # <<>> => Outcome = prev[1]
DeterminismWitness ==
  /\ Returned
  /\ prev # <<>>
  /\ gram = "mutual"
  /\ result = "true"
  /\ Len(calls) >= 3

\* The activations of _context::parse_non_term / parse_term.
RuleFrames == {"try", "seed", "grow", "reject", "accept"}

\* An invocation of parse_non_term / parse_term returns in this step: the one
\* on top of the stack, with a boolean.
RuleReturns ==
  /\ pc = "run" /\ stack # <<>> /\ Top.k \in RuleFrames
  /\ ctl.op \in {"ret", "throw"}
  /\ ctl'.op = "ret"
  /\ stack' = Pop

\* C22: when an invocation of parse_term / parse_non_term on a rule r returns,
\* true or false, in mode _PARSE, _REJECT or _ACCEPT, the state of r is the one r
\* had when the invocation was entered; an invocation that returns at once on
\* left recursion changes no rule state.
RuleStateScoping ==
  [][ /\ RuleReturns => rstate'[Top.r] = Top.old
      /\ (Entering /\ ctl'.op = "ret") => rstate' = rstate ]_vars
RuleStateScopingWitness ==
  /\ Returning("reject")
  /\ ctl.ok
  /\ rstate[Top.r] # Top.old
  /\ Top.old.mode = "REJECT"

\* Control leaves the And or Not on top of the stack in this step, by its
\* return or by an _lr_ok passing through it.
PredicateLeaves ==
  /\ pc = "run" /\ stack # <<>> /\ Top.k \in {"and", "not"}
  /\ stack' = Pop

\* C23: however control leaves an And(e) or a Not(e) that was attempted, the
\* position and the match log are those from before the predicate; And returns
\* the result of e and Not its negation.
PredicateZeroWidth ==
  [][ PredicateLeaves =>
        /\ pos' = Top.st.pos
        /\ Len(matches') = Top.st.matches
        /\ (ctl'.op = "ret" => ctl'.ok = (IF Top.k = "and" THEN ctl.ok ELSE ~ctl.ok)) ]_vars

\* The right operand of the Choice whose activation is on top is being attempted.
ChoiceRight ==
  /\ pc = "run" /\ ctl.op = "eval"
  /\ stack # <<>> /\ Top.k = "expr" /\ Top.e.t = "choice"

\* C24: when the left operand of a Choice succeeds the Choice returns true at
\* once, leaving position and match log as the operand left them; when it fails
\* the right operand is attempted from the position and the match-log length of
\* the Choice's entry, and its result is the result of the Choice.
ChoiceOrdered ==
  /\ [](ChoiceRight => /\ ctl.e = Top.e.r
                        /\ pos = Top.pos
                        /\ Len(matches) = Top.matches)
  /\ [][ /\ (Returning("choice") /\ ctl.ok) =>
                (ctl' = Ret(TRUE) /\ pos' = pos /\ matches' = matches)
         /\ (Returning("choice") /\ ~ctl.ok) =>
                (ctl' = Eval(Top.r, Top.term) /\ stack' = Pop)
         /\ (Returning("expr") /\ Top.e.t = "choice") => (ctl' = ctl) ]_vars

\* The left operand has failed after it moved the position and recorded a match.
ChoiceOrderedWitness ==
  /\ Returning("choice") /\ ~ctl.ok
  /\ pos # Top.st.pos /\ Len(matches) > Top.st.matches

\* A rule in _REJECT or _ACCEPT mode is entered at its recorded position.
Reentry ==
  /\ Entering /\ lr
  /\ rstate[ctl.r].mode \in {"REJECT", "ACCEPT"}

\* C25: a rule entered in _REJECT or _ACCEPT mode at its recorded position
\* returns false in _REJECT and true in _ACCEPT, without evaluating its body,
\* moving the position or appending a match record.
ReentryShortCircuit ==
  [][ Reentry =>
        /\ ctl' = Ret(rstate[ctl.r].mode = "ACCEPT")
        /\ stack' = stack
        /\ pos' = pos
        /\ matches' = matches ]_vars

\* A rule with a bound action is re-entered in _ACCEPT mode after its seed
\* left a record.
ReentryShortCircuitWitness ==
  /\ Reentry /\ rstate[ctl.r].mode = "ACCEPT"
  /\ ctl.r \in G.bound /\ matches # <<>>

\* The seed or a grow iteration of a left-recursive rule has just succeeded.
IterationSucceeds ==
  /\ pc = "run" /\ ctl.op = "ret" /\ ctl.ok
  /\ stack # <<>> /\ Top.k \in {"seed", "grow"}
\* A grow iteration has just failed.
IterationFails == Returning("grow") /\ ~ctl.ok

\* C26: the next grow iteration starts from the end of the seed or of the
\* iteration that just succeeded; while it runs, the records the log held at
\* its start stay as they are; when it fails, the position and the match log
\* go back to what they were at its start, and the left recursion completes
\* there by throwing _lr_ok.
GrowRollback ==
  [][ /\ IterationSucceeds =>
            stack'[Len(stack)].st = [pos |-> pos, matches |-> Len(matches)]
      /\ \A i \in 1..Len(stack) :
            (stack[i].k = "grow" /\ i <= Len(stack') /\ stack'[i] = stack[i]) =>
               /\ Len(matches') >= stack[i].st.matches
               /\ SubSeq(matches', 1, stack[i].st.matches)
                    = SubSeq(matches, 1, stack[i].st.matches)
      /\ IterationFails =>
            /\ Len(matches) >= Top.st.matches
            /\ pos' = Top.st.pos
            /\ matches' = SubSeq(matches, 1, Top.st.matches)
            /\ ctl' = Throw(Top.r) ]_vars

\* The failing iteration follows a successful one, and it moved the position
\* and left records before it failed.
GrowRollbackWitness ==
  /\ IterationFails
  /\ Top.st.pos.it > Top.new_pos + 1
  /\ pos # Top.st.pos /\ Len(matches) > Top.st.matches

\* An _lr_ok passes through the rule invocation on top and continues upward.
SignalPasses ==
  /\ pc = "run" /\ ctl.op = "throw"
  /\ stack # <<>> /\ Top.k \in RuleFrames
  /\ stack' = Pop /\ ctl'.op = "throw"

\* C27: when an _lr_ok passes through an invocation of a rule q, in whichever
\* branch of parse_non_term / parse_term it is, the state of q is back at its
\* value at the entry of that invocation as the signal continues.
UnwindRestoresState ==
  [][ SignalPasses => rstate'[Top.r] = Top.old ]_vars

\* The invocations in flight that catch an _lr_ok of rule r thrown by the
\* invocation on top: those of r inside the try of case _PARSE.
Handlers(r) ==
  {i \in 1..(Len(stack) - 1) : stack[i].k = "try" /\ stack[i].r = r}
\* The one that does catch it: the innermost.
Handler(r) == CHOOSE i \in Handlers(r) : \A j \in Handlers(r) : j <= i

\* C28: the _lr_ok thrown for rule r by the invocation that detected the left
\* recursion at position p is caught by an invocation of r that was entered
\* at p.
SignalConsumedAtDetection ==
  [][ IterationFails =>
        /\ Handlers(Top.r) # {}
        /\ stack[Handler(Top.r)].new_pos = Top.new_pos ]_vars

\* The _lr_ok in flight has a handler above it that takes it.
SignalCaught ==
  (pc = "run" /\ ctl.op = "throw") =>
     \E i \in 1..Len(stack) : stack[i].k = "try" /\ stack[i].r = ctl.r

\* C29: every _lr_ok thrown for a rule r is caught by an invocation of r in
\* flight, never reaching parse(), and parse() ends, returning true or false.
SignalNeverEscapes ==
  /\ []SignalCaught
  /\ [](pc = "done" => result \in {"true", "false"})
  /\ <>(pc = "done")

\* The step calls restore(st) with the snapshot of the activation on top.
Restoring ==
  /\ pc = "run" /\ ctl.op = "ret" /\ stack # <<>>
  /\ \/ Top.k \in {"and", "not"}
     \/ Top.k \in {"loop0", "loop1", "optional", "choice", "grow"} /\ ~ctl.ok

\* C30: at every call of restore(st) the match-log length in st is at most the
\* current length, so the log is only truncated, and no record of the log is a
\* default-constructed one.
RestoreOnlyTruncates ==
  /\ [](\A i \in 1..Len(matches) : matches[i].rule \in G.bound)
  /\ [][ Restoring =>
           /\ Top.st.matches <= Len(matches)
           /\ matches' = SubSeq(matches, 1, Top.st.matches) ]_vars

\* A restore that drops records.
RestoreOnlyTruncatesWitness ==
  /\ Restoring
  /\ Top.st.matches < Len(matches)
  /\ Top.st.matches > 0

\* The activations of _loop0 and _loop1, at their calls of the operand and of
\* parse_ws.
LoopFrames == {"loop0", "loop0_ws", "loop1", "loop1_first", "loop1_ws"}
\* A ZeroOrMore or OneOrMore is being evaluated.
RepetitionInFlight ==
  \E d \in 1..Len(stack) : stack[d].k \in LoopFrames

\* C31: no evaluation of a ZeroOrMore or a OneOrMore goes on for ever: again
\* and again no repetition is in flight.
RepetitionTerminates == []<>~RepetitionInFlight

\* C32: a rule object for which set_parse_proc was not called has no parse
\* proc, whatever was constructed, bound and destroyed before it, at its
\* address or elsewhere; and no match record is pushed for such a rule.
BindingEndsWithRule ==
  /\ [](\A a \in Addresses :
          (objects[a].alive /\ ~objects[a].bound) => objects[a].m_parse_proc = NoProc)
  /\ [][ made' # made => objects[made'[Len(made')]].bound ]_vars

====
